---- MODULE Spec2Model ----
(***************************************************************************)
(* State-machine model of the expense tracker service: the users and       *)
(* expenses tables, the bearer tokens in circulation, the clock, the       *)
(* response to the last request.  One action per HTTP handler; a          *)
(* handler's action includes the dependencies FastAPI resolves for it      *)
(* (get_current_active_user) and the pydantic validation of its body.      *)
(* Spec is the application that app/main.py builds; the other              *)
(* specifications drive the handlers of the routers directly.              *)
(***************************************************************************)
EXTENDS Integers, Sequences, FiniteSets, TLC

VARIABLES
    users,          \* rows of table "users"
    expenses,       \* rows of table "expenses"
    nextUserId,     \* AUTO_INCREMENT counter of users.id
    nextExpenseId,  \* AUTO_INCREMENT counter of expenses.id
    tokens,         \* tokens signed with SECRET_KEY so far (held by clients)
    now,            \* datetime.utcnow(), in minutes
    inflight,       \* requests between their uniqueness check and their commit
    last            \* the last request's response (and the parts of the request it echoes)

vars == <<users, expenses, nextUserId, nextExpenseId, tokens, now, inflight, last>>
db == <<users, expenses, nextUserId, nextExpenseId>>

(***************************************************************************)
(* Bounds of the model.                                                    *)
(***************************************************************************)
MaxUsers == 2
MaxTokens == 2
MaxTicks == 1
MaxSalt == 1
MaxPatchFields == 1
MaxExpensePatchFields == 2
MaxStatRows == 3
MaxListRows == 3
MaxExpenses == 2
MaxInflight == 2
MantissaBits == 3

(***************************************************************************)
(* Program constants.                                                      *)
(***************************************************************************)
ACCESS_TOKEN_EXPIRE_MINUTES == 30
RESET_TOKEN_EXPIRE_MINUTES == 60
MinPasswordLength == 6
TitleMaxLength == 200
MaxPageSize == 100
WeekDays == 7
MonthDays == 30

\* Python's None where a string is expected.
None == "<None>"

\* None where a number, a datetime or a timedelta is expected, and the mark
\* of a numeric field that the body of a PUT does not set (exclude_unset).
NullNum == 0 - 1
AbsentNum == 0 - 2

\* The clock advances in steps that take an access token past its expiry.
\* Minutes; the clock starts a month after the oldest date a request names.
Day == 24 * 60
StartTime == 31 * Day
TickStep == ACCESS_TOKEN_EXPIRE_MINUTES + 1
MaxTime == StartTime + MaxTicks * TickStep

(***************************************************************************)
(* Request inputs.  A username is any string, so it may be spelled like an *)
(* e-mail address.                                                         *)
(***************************************************************************)
Emails == {"a@x.io", "b@x.io"}
UsernameInputs == {"al", "a@x.io"}
PasswordInputs == {"secret1", "secret2", "short"}
FullNameInputs == {None}
Salts == 1..MaxSalt

\* Bodies of PUT /api/auth/me with at most MaxPatchFields fields present.
PatchFields(p) ==
    {f \in {"email", "username", "full_name", "password"} : p[f] # None}

UserUpdateInputs ==
    {p \in [email : {None} \cup Emails,
            username : {None, ""} \cup UsernameInputs,
            full_name : {None, "", "Al"},
            password : {None} \cup PasswordInputs] :
        Cardinality(PatchFields(p)) <= MaxPatchFields}

(***************************************************************************)
(* Credential store (passlib bcrypt): a hash embeds a random salt and is   *)
(* never the plaintext; verification recomputes the digest with the        *)
(* embedded salt.                                                          *)
(***************************************************************************)
get_password_hash(password, salt) ==
    [scheme |-> "bcrypt", salt |-> salt, digest |-> password]

verify_password(plain_password, hashed_password) ==
    /\ hashed_password.scheme = "bcrypt"
    /\ hashed_password.digest = plain_password

(***************************************************************************)
(* Token service (python-jose).  A token is its claims, its expiry and     *)
(* whether its signature was made with SECRET_KEY.                         *)
(***************************************************************************)
NoToken == [absent |-> TRUE]

\* `if expires_delta:` is false for None and for timedelta(0) alike.
create_access_token(data, expires_delta) ==
    [sub |-> data.sub, typ |-> data.typ, sig |-> TRUE,
     exp |-> IF expires_delta # NullNum /\ expires_delta # 0
             THEN now + expires_delta
             ELSE now + ACCESS_TOKEN_EXPIRE_MINUTES]

\* jwt.decode at a given time: JWTError on a malformed token, a bad
\* signature or an expired token (exp earlier than the time of the call).
JwtDecodesAt(token, time) == token.sig /\ token.exp >= time

JwtDecodes(token) == JwtDecodesAt(token, now)

\* verify_token: the subject, or None when credentials_exception is raised.
VerifyTokenAt(token, time) ==
    IF ~JwtDecodesAt(token, time) THEN None
    ELSE token.sub

verify_token(token) == VerifyTokenAt(token, now)

create_reset_password_token(email) ==
    create_access_token([sub |-> email, typ |-> "password_reset"],
                        RESET_TOKEN_EXPIRE_MINUTES)

\* Mutant: the type claim is not looked at.
VerifyResetTokenAt_AnyType(token, time) ==
    IF ~JwtDecodesAt(token, time) THEN None
    ELSE token.sub

\* verify_reset_token: JWTError is caught, and a payload of another type
\* gives None as well.
VerifyResetTokenAt(token, time) ==
    IF ~JwtDecodesAt(token, time) THEN None
    ELSE IF token.typ # "password_reset" THEN None
    ELSE token.sub

verify_reset_token(token) == VerifyResetTokenAt(token, now)

(***************************************************************************)
(* Queries on table users.  email and username are unique columns, so      *)
(* .first() has at most one candidate; the lowest id stands for "first".   *)
(***************************************************************************)
NoRow == [id |-> 0]
NoUser == NoRow

First(rows) ==
    IF rows = {} THEN NoRow
    ELSE CHOOSE u \in rows : \A v \in rows : u.id <= v.id

UserByEmail(email) == First({u \in users : u.email = email})
UserByUsername(username) == First({u \in users : u.username = username})

UserResponse(u) ==
    [id |-> u.id, email |-> u.email, username |-> u.username,
     full_name |-> u.full_name, is_active |-> u.is_active]

(***************************************************************************)
(* Auth guard.                                                             *)
(***************************************************************************)
Unauthorized ==
    [status |-> 401, detail |-> "Could not validate credentials",
     hdr |-> "Bearer", user |-> NoUser]

get_current_user(token) ==
    IF token = NoToken
    THEN [Unauthorized EXCEPT !.detail = "Not authenticated"]
    ELSE LET username == verify_token(token)
             user == UserByUsername(username)
         IN IF username = None THEN Unauthorized
            ELSE IF user = NoUser THEN Unauthorized
            ELSE [status |-> 200, detail |-> None, hdr |-> None, user |-> user]

\* Mutant: the active flag is not checked.
get_current_active_user_NoActiveCheck(token) == get_current_user(token)

get_current_active_user(token) ==
    LET r == get_current_user(token)
    IN IF r.status # 200 THEN r
       ELSE IF r.user.is_active = 0
            THEN [status |-> 400, detail |-> "Inactive user",
                  hdr |-> None, user |-> NoUser]
            ELSE r

(***************************************************************************)
(* Responses.                                                              *)
(***************************************************************************)
NoBody == [none |-> TRUE]

Response(op, req, status, detail, hdr, body) ==
    [op |-> op, req |-> req, status |-> status, detail |-> detail, hdr |-> hdr,
     body |-> body]

Rejected(op, req, r) == Response(op, req, r.status, r.detail, r.hdr, NoBody)

(***************************************************************************)
(* POST /api/auth/register                                                 *)
(***************************************************************************)
UserCreateValid(email, username, password) ==
    /\ email \in Emails
    /\ Len(password) >= MinPasswordLength

\* Mutant: the username is checked before the e-mail.
RegisterConflict_UsernameFirst(email, username) ==
    IF UserByUsername(username) # NoUser THEN "Username already taken"
    ELSE IF UserByEmail(email) # NoUser THEN "Email already registered"
    ELSE None

\* The two uniqueness checks, e-mail first: the detail of the 400, or None.
RegisterConflict(email, username) ==
    IF UserByEmail(email) # NoUser THEN "Email already registered"
    ELSE IF UserByUsername(username) # NoUser THEN "Username already taken"
    ELSE None

register(email, username, password, full_name, salt) ==
    LET new_user == [id |-> nextUserId, email |-> email, username |-> username,
                     hashed_password |-> get_password_hash(password, salt),
                     full_name |-> full_name, is_active |-> 1]
        req == [email |-> email, username |-> username]
    IN
    /\ IF ~UserCreateValid(email, username, password)
       THEN /\ last' = Response("register", req, 422, "validation", None, NoBody)
            /\ UNCHANGED db
       ELSE IF RegisterConflict(email, username) # None
       THEN /\ last' = Response("register", req, 400, RegisterConflict(email, username),
                                None, NoBody)
            /\ UNCHANGED db
       ELSE /\ nextUserId <= MaxUsers
            /\ users' = users \cup {new_user}
            /\ nextUserId' = nextUserId + 1
            /\ last' = Response("register", req, 201, None, None, UserResponse(new_user))
            /\ UNCHANGED <<expenses, nextExpenseId>>
    /\ UNCHANGED <<tokens, now, inflight>>

(***************************************************************************)
(* POST /api/auth/login                                                    *)
(***************************************************************************)
LoginUser(identifier) ==
    IF UserByUsername(identifier) # NoUser
    THEN UserByUsername(identifier)
    ELSE UserByEmail(identifier)

\* Mutant: the active flag is checked before the password.
LoginCheck_ActiveFirst(user, password) ==
    IF user = NoUser
    THEN [status |-> 401, detail |-> "Incorrect username/email or password",
          hdr |-> "Bearer"]
    ELSE IF user.is_active = 0
    THEN [status |-> 400, detail |-> "Inactive user account", hdr |-> None]
    ELSE IF ~verify_password(password, user.hashed_password)
    THEN [status |-> 401, detail |-> "Incorrect username/email or password",
          hdr |-> "Bearer"]
    ELSE [status |-> 200, detail |-> None, hdr |-> None]

\* The checks of login, in the handler's order: the status and the detail.
LoginCheck(user, password) ==
    IF user = NoUser \/ ~verify_password(password, user.hashed_password)
    THEN [status |-> 401, detail |-> "Incorrect username/email or password",
          hdr |-> "Bearer"]
    ELSE IF user.is_active = 0
    THEN [status |-> 400, detail |-> "Inactive user account", hdr |-> None]
    ELSE [status |-> 200, detail |-> None, hdr |-> None]

login(identifier, password) ==
    LET user == LoginUser(identifier)
        check == LoginCheck(user, password)
        access_token == create_access_token([sub |-> user.username, typ |-> None],
                                            ACCESS_TOKEN_EXPIRE_MINUTES)
        req == [identifier |-> identifier]
    IN
    /\ IF check.status # 200
       THEN /\ last' = Rejected("login", req, check)
            /\ UNCHANGED tokens
       ELSE /\ Cardinality(tokens \cup {access_token}) <= MaxTokens
            /\ tokens' = tokens \cup {access_token}
            /\ last' = Response("login", req, 200, None, None, access_token)
    /\ UNCHANGED <<db, now, inflight>>

(***************************************************************************)
(* Bearer tokens a request may carry: none, a token signed earlier, or a   *)
(* forged one (the client has no SECRET_KEY, so its signature is bad).     *)
(***************************************************************************)
ForgedTokens ==
    {[sub |-> "al", typ |-> None, sig |-> FALSE,
      exp |-> MaxTime + ACCESS_TOKEN_EXPIRE_MINUTES]}

TokenInputs == {NoToken} \cup ForgedTokens \cup tokens

(***************************************************************************)
(* GET /api/auth/me                                                        *)
(***************************************************************************)
get_current_user_profile(token) ==
    LET auth == get_current_active_user(token)
    IN
    /\ IF auth.status # 200
       THEN last' = Rejected("get_current_user_profile", NoBody, auth)
       ELSE last' = Response("get_current_user_profile", NoBody, 200, None, None,
                             UserResponse(auth.user))
    /\ UNCHANGED <<db, tokens, now, inflight>>

(***************************************************************************)
(* PUT /api/auth/me.  A field of UserUpdate that is absent or null is      *)
(* None.                                                                   *)
(***************************************************************************)
UserUpdateValid(user_update) ==
    /\ user_update.email = None \/ user_update.email \in Emails
    /\ user_update.password = None \/ Len(user_update.password) >= MinPasswordLength

\* Python truthiness of an Optional[str]: neither None nor "".
Truthy(s) == s # None /\ s # ""

\* Mutant: a changed username is not checked.
UpdateConflict_EmailOnly(current_user, user_update) ==
    IF /\ Truthy(user_update.email)
       /\ user_update.email # current_user.email
       /\ UserByEmail(user_update.email) # NoUser
    THEN "Email already in use"
    ELSE None

\* The uniqueness checks of a changed e-mail or username: the detail of the
\* 400, or None.
UpdateConflict(current_user, user_update) ==
    IF /\ Truthy(user_update.email)
       /\ user_update.email # current_user.email
       /\ UserByEmail(user_update.email) # NoUser
    THEN "Email already in use"
    ELSE IF /\ Truthy(user_update.username)
            /\ user_update.username # current_user.username
            /\ UserByUsername(user_update.username) # NoUser
    THEN "Username already taken"
    ELSE None

update_profile(token, user_update, salt) ==
    LET auth == get_current_active_user(token)
        current_user == auth.user
        updated ==
            [current_user EXCEPT
                !.email = IF Truthy(user_update.email)
                          THEN user_update.email ELSE @,
                !.username = IF Truthy(user_update.username)
                             THEN user_update.username ELSE @,
                !.full_name = IF Truthy(user_update.full_name)
                              THEN user_update.full_name ELSE @,
                !.hashed_password = IF Truthy(user_update.password)
                                    THEN get_password_hash(user_update.password, salt)
                                    ELSE @]
    IN
    /\ IF auth.status # 200
       THEN /\ last' = Rejected("update_profile", NoBody, auth)
            /\ UNCHANGED users
       ELSE IF ~UserUpdateValid(user_update)
       THEN /\ last' = Response("update_profile", NoBody, 422, "validation", None, NoBody)
            /\ UNCHANGED users
       ELSE IF UpdateConflict(current_user, user_update) # None
       THEN /\ last' = Response("update_profile", NoBody, 400,
                                UpdateConflict(current_user, user_update), None, NoBody)
            /\ UNCHANGED users
       ELSE /\ users' = (users \ {current_user}) \cup {updated}
            /\ last' = Response("update_profile", NoBody, 200, None, None, UserResponse(updated))
    /\ UNCHANGED <<expenses, nextUserId, nextExpenseId, tokens, now, inflight>>

(***************************************************************************)
(* POST /api/auth/logout: stateless, unauthenticated.                      *)
(***************************************************************************)
logout ==
    /\ last' = Response("logout", NoBody, 200, "Successfully logged out", None, NoBody)
    /\ UNCHANGED <<db, tokens, now, inflight>>

(***************************************************************************)
(* DELETE /api/auth/me.  The relationship User.expenses cascades the       *)
(* delete to the user's expenses in the same commit.                       *)
(***************************************************************************)
delete_account_NoCascade(token) ==
    LET auth == get_current_active_user(token)
    IN
    /\ IF auth.status # 200
       THEN /\ last' = Rejected("delete_account", NoBody, auth)
            /\ UNCHANGED users
       ELSE /\ users' = users \ {auth.user}
            /\ last' = Response("delete_account", NoBody, 200, "Account deleted successfully",
                                None, NoBody)
    /\ UNCHANGED <<expenses, nextUserId, nextExpenseId, tokens, now, inflight>>

delete_account(token) ==
    LET auth == get_current_active_user(token)
    IN
    /\ IF auth.status # 200
       THEN /\ last' = Rejected("delete_account", NoBody, auth)
            /\ UNCHANGED <<users, expenses>>
       ELSE /\ users' = users \ {auth.user}
            /\ expenses' = {e \in expenses : e.user_id # auth.user.id}
            /\ last' = Response("delete_account", NoBody, 200, "Account deleted successfully",
                                None, NoBody)
    /\ UNCHANGED <<nextUserId, nextExpenseId, tokens, now, inflight>>

(***************************************************************************)
(* Expense ledger (app/routers/expense.py).  Python floats are modelled as *)
(* numbers with MantissaBits significant bits: an addition rounds its      *)
(* exact result to the nearest such number, ties to even.                  *)
(***************************************************************************)
ExpenseCategory ==
    {"food", "transport", "utilities", "entertainment",
     "healthcare", "shopping", "education", "other"}

\* The mark of a string field that the body of a PUT does not set.
Absent == "<absent>"

RECURSIVE Pow2(_)
Pow2(k) == IF k = 0 THEN 1 ELSE 2 * Pow2(k - 1)

RECURSIVE Shift(_)
Shift(n) == IF n < Pow2(MantissaBits) THEN 0 ELSE 1 + Shift(n \div 2)

FloatRound(n) ==
    LET u == Pow2(Shift(n))
        q == n \div u
        r == n % u
    IN IF 2 * r < u THEN q * u
       ELSE IF 2 * r > u THEN (q + 1) * u
       ELSE IF q % 2 = 0 THEN q * u ELSE (q + 1) * u

FloatAdd(a, b) == FloatRound(a + b)

\* sum(...) and "+=" over a list of floats, left to right from 0.
RECURSIVE PySum(_)
PySum(xs) ==
    IF xs = <<>> THEN 0
    ELSE FloatAdd(PySum(SubSeq(xs, 1, Len(xs) - 1)), xs[Len(xs)])

\* The orders in which a query may return a set of rows.
Orderings(rows) ==
    {s \in [1..Cardinality(rows) -> rows] :
        \A i, j \in 1..Cardinality(rows) : i # j => s[i] # s[j]}

\* ORDER BY date DESC (MySQL sorts NULL below every value).
DateDesc(s) == \A i, j \in 1..Len(s) : i < j => s[i].date >= s[j].date

RECURSIVE SelectSeq2(_, _)
SelectSeq2(s, category) ==
    IF s = <<>> THEN <<>>
    ELSE LET rest == SelectSeq2(SubSeq(s, 1, Len(s) - 1), category)
             e == s[Len(s)]
         IN IF e.category = category THEN Append(rest, e.amount) ELSE rest

Amounts(s) == [i \in 1..Len(s) |-> s[i].amount]

NoExpense == NoRow

OwnedExpense_AnyOwner(expense_id, user_id) ==
    First({e \in expenses : e.id = expense_id})

OwnedExpense(expense_id, user_id) ==
    First({e \in expenses : e.id = expense_id /\ e.user_id = user_id})

ExpenseReq(auth, expense_id) == [caller |-> auth.user.id, id |-> expense_id]

\* A request for a path no included router serves.
RouteNotFound(op) ==
    /\ last' = Response(op, NoBody, 404, "Not Found", None, NoBody)
    /\ UNCHANGED <<db, tokens, now, inflight>>

(***************************************************************************)
(* POST /api/expenses/                                                     *)
(***************************************************************************)
ExpenseCreateValid(body) ==
    /\ Len(body.title) <= TitleMaxLength
    /\ body.amount > 0
    /\ body.category \in ExpenseCategory

\* ExpenseCreate(...).dict(): the declared fields; any other key of the
\* JSON body is ignored.
ExpenseData(body) ==
    [title |-> body.title, amount |-> body.amount, category |-> body.category,
     description |-> body.description, date |-> body.date]

NewExpense_BodyOwner(body, user_id) ==
    [id |-> nextExpenseId,
     user_id |-> IF body.user_id = NullNum THEN user_id ELSE body.user_id,
     title |-> body.title, amount |-> body.amount, category |-> body.category,
     description |-> body.description,
     date |-> IF body.date = NullNum THEN now ELSE body.date,
     created_at |-> now, updated_at |-> now]

NewExpense(body, user_id) ==
    LET data == ExpenseData(body)
    IN
    [id |-> nextExpenseId, user_id |-> user_id,
     title |-> data.title, amount |-> data.amount, category |-> data.category,
     description |-> data.description,
     date |-> IF data.date = NullNum THEN now ELSE data.date,
     created_at |-> now, updated_at |-> now]

create_expense(token, body) ==
    LET auth == get_current_active_user(token)
        req == [caller |-> auth.user.id, id |-> 0, owner |-> body.user_id]
        new_expense == NewExpense(body, auth.user.id)
    IN
    /\ IF auth.status # 200
       THEN /\ last' = Rejected("create_expense", req, auth)
            /\ UNCHANGED <<expenses, nextExpenseId>>
       ELSE IF ~ExpenseCreateValid(body)
       THEN /\ last' = Response("create_expense", req, 422, "validation", None, NoBody)
            /\ UNCHANGED <<expenses, nextExpenseId>>
       ELSE /\ nextExpenseId <= MaxExpenses
            /\ expenses' = expenses \cup {new_expense}
            /\ nextExpenseId' = nextExpenseId + 1
            /\ last' = Response("create_expense", req, 201, None, None, new_expense)
    /\ UNCHANGED <<users, nextUserId, tokens, now, inflight>>

(***************************************************************************)
(* GET /api/expenses/                                                      *)
(***************************************************************************)
InDateRange_Exclusive(e, start_date, end_date) ==
    /\ start_date = NullNum \/ (e.date # NullNum /\ e.date > start_date)
    /\ end_date = NullNum \/ (e.date # NullNum /\ e.date < end_date)

InDateRange(e, start_date, end_date) ==
    /\ start_date = NullNum \/ (e.date # NullNum /\ e.date >= start_date)
    /\ end_date = NullNum \/ (e.date # NullNum /\ e.date <= end_date)

ListQueryValid(skip, limit, category) ==
    /\ skip >= 0
    /\ limit >= 1 /\ limit <= MaxPageSize
    /\ category = None \/ category \in ExpenseCategory

Page_IgnoreSkip(s, skip, limit) ==
    SubSeq(s, 1, IF limit < Len(s) THEN limit ELSE Len(s))

Page(s, skip, limit) ==
    SubSeq(s, skip + 1, IF skip + limit < Len(s) THEN skip + limit ELSE Len(s))

get_expenses(token, skip, limit, category, start_date, end_date) ==
    LET auth == get_current_active_user(token)
        req == [caller |-> auth.user.id, id |-> 0, skip |-> skip, limit |-> limit,
                category |-> category, start_date |-> start_date,
                end_date |-> end_date]
        rows == {e \in expenses :
                    /\ e.user_id = auth.user.id
                    /\ category = None \/ e.category = category
                    /\ InDateRange(e, start_date, end_date)}
    IN
    /\ IF auth.status # 200
       THEN last' = Rejected("get_expenses", req, auth)
       ELSE IF ~ListQueryValid(skip, limit, category)
       THEN last' = Response("get_expenses", req, 422, "validation", None, NoBody)
       ELSE \E s \in Orderings(rows) :
               /\ DateDesc(s)
               /\ last' = Response("get_expenses", req, 200, None, None,
                                   Page(s, skip, limit))
    /\ UNCHANGED <<db, tokens, now, inflight>>

(***************************************************************************)
(* GET /api/expenses/statistics                                            *)
(***************************************************************************)
ExpenseStatistics(s) ==
    IF s = <<>>
    THEN [total_expenses |-> 0, expense_count |-> 0,
          average_expense |-> [num |-> 0, den |-> 1],
          by_category |-> <<>>]
    ELSE [total_expenses |-> PySum(Amounts(s)),
          expense_count |-> Len(s),
          \* total / count, the float quotient of the two
          average_expense |-> [num |-> PySum(Amounts(s)), den |-> Len(s)],
          by_category |-> [c \in {s[i].category : i \in 1..Len(s)} |->
                              PySum(SelectSeq2(s, c))]]

get_expense_statistics(token, start_date, end_date) ==
    LET auth == get_current_active_user(token)
        req == [caller |-> auth.user.id, id |-> 0,
                start_date |-> start_date, end_date |-> end_date]
        rows == {e \in expenses :
                    /\ e.user_id = auth.user.id
                    /\ InDateRange(e, start_date, end_date)}
    IN
    /\ IF auth.status # 200
       THEN last' = Rejected("get_expense_statistics", req, auth)
       ELSE \E s \in Orderings(rows) :
               last' = Response("get_expense_statistics", req, 200, None, None,
                                ExpenseStatistics(s))
    /\ UNCHANGED <<db, tokens, now, inflight>>

(***************************************************************************)
(* GET /api/expenses/{expense_id}                                          *)
(***************************************************************************)
get_expense(token, expense_id) ==
    LET auth == get_current_active_user(token)
        req == ExpenseReq(auth, expense_id)
        expense == OwnedExpense(expense_id, auth.user.id)
    IN
    /\ IF auth.status # 200
       THEN last' = Rejected("get_expense", req, auth)
       ELSE IF expense = NoExpense
       THEN last' = Response("get_expense", req, 404, "Expense not found", None, NoBody)
       ELSE last' = Response("get_expense", req, 200, None, None, expense)
    /\ UNCHANGED <<db, tokens, now, inflight>>

(***************************************************************************)
(* PUT /api/expenses/{expense_id}                                          *)
(***************************************************************************)
\* Mutant: gt=0 is missing on ExpenseUpdate.amount.
ExpenseUpdateValid_AnyAmount(p) ==
    /\ p.title \in {Absent, None} \/ Len(p.title) <= TitleMaxLength
    /\ p.category \in {Absent, None} \/ p.category \in ExpenseCategory

ExpenseUpdateValid(p) ==
    /\ p.title \in {Absent, None} \/ Len(p.title) <= TitleMaxLength
    /\ p.amount \in {AbsentNum, NullNum} \/ p.amount > 0
    /\ p.category \in {Absent, None} \/ p.category \in ExpenseCategory

ApplyExpenseUpdate_ExcludeNone(expense, p) ==
    [expense EXCEPT
        !.title = IF p.title \notin {Absent, None} THEN p.title ELSE @,
        !.amount = IF p.amount \notin {AbsentNum, NullNum} THEN p.amount ELSE @,
        !.category = IF p.category \notin {Absent, None} THEN p.category ELSE @,
        !.description = IF p.description \notin {Absent, None}
                        THEN p.description ELSE @,
        !.date = IF p.date \notin {AbsentNum, NullNum} THEN p.date ELSE @,
        !.updated_at = now]

\* for field, value in expense_update.dict(exclude_unset=True).items():
\*     setattr(expense, field, value); then updated_at = utcnow()
ApplyExpenseUpdate(expense, p) ==
    [expense EXCEPT
        !.title = IF p.title # Absent THEN p.title ELSE @,
        !.amount = IF p.amount # AbsentNum THEN p.amount ELSE @,
        !.category = IF p.category # Absent THEN p.category ELSE @,
        !.description = IF p.description # Absent THEN p.description ELSE @,
        !.date = IF p.date # AbsentNum THEN p.date ELSE @,
        !.updated_at = now]

\* Columns title, amount and category are NOT NULL: the commit fails.
ViolatesNotNull(e) ==
    e.title = None \/ e.amount = NullNum \/ e.category = None

update_expense(token, expense_id, expense_update) ==
    LET auth == get_current_active_user(token)
        req == [caller |-> auth.user.id, id |-> expense_id, patch |-> expense_update]
        expense == OwnedExpense(expense_id, auth.user.id)
        updated == ApplyExpenseUpdate(expense, expense_update)
    IN
    /\ IF auth.status # 200
       THEN /\ last' = Rejected("update_expense", req, auth)
            /\ UNCHANGED expenses
       ELSE IF ~ExpenseUpdateValid(expense_update)
       THEN /\ last' = Response("update_expense", req, 422, "validation", None, NoBody)
            /\ UNCHANGED expenses
       ELSE IF expense = NoExpense
       THEN /\ last' = Response("update_expense", req, 404, "Expense not found",
                                None, NoBody)
            /\ UNCHANGED expenses
       ELSE IF ViolatesNotNull(updated)
       THEN /\ last' = Response("update_expense", req, 500, "Internal Server Error",
                                None, NoBody)
            /\ UNCHANGED expenses
       ELSE /\ expenses' = (expenses \ {expense}) \cup {updated}
            /\ last' = Response("update_expense", req, 200, None, None, updated)
    /\ UNCHANGED <<users, nextUserId, nextExpenseId, tokens, now, inflight>>

(***************************************************************************)
(* DELETE /api/expenses/{expense_id}                                       *)
(***************************************************************************)
delete_expense(token, expense_id) ==
    LET auth == get_current_active_user(token)
        req == ExpenseReq(auth, expense_id)
        expense == OwnedExpense(expense_id, auth.user.id)
    IN
    /\ IF auth.status # 200
       THEN /\ last' = Rejected("delete_expense", req, auth)
            /\ UNCHANGED expenses
       ELSE IF expense = NoExpense
       THEN /\ last' = Response("delete_expense", req, 404, "Expense not found",
                                None, NoBody)
            /\ UNCHANGED expenses
       ELSE /\ expenses' = expenses \ {expense}
            /\ last' = Response("delete_expense", req, 200,
                                "Expense deleted successfully", None, NoBody)
    /\ UNCHANGED <<users, nextUserId, nextExpenseId, tokens, now, inflight>>

(***************************************************************************)
(* GET /api/expenses/recent/week and /recent/month                         *)
(***************************************************************************)
RecentExpenses(op, token, days) ==
    LET auth == get_current_active_user(token)
        req == ExpenseReq(auth, 0)
        rows == {e \in expenses :
                    /\ e.user_id = auth.user.id
                    /\ e.date # NullNum
                    /\ e.date >= now - days * Day}
    IN
    /\ IF auth.status # 200
       THEN last' = Rejected(op, req, auth)
       ELSE \E s \in Orderings(rows) :
               /\ DateDesc(s)
               /\ last' = Response(op, req, 200, None, None, s)
    /\ UNCHANGED <<db, tokens, now, inflight>>

get_week_expenses(token) == RecentExpenses("get_week_expenses", token, WeekDays)

get_month_expenses(token) == RecentExpenses("get_month_expenses", token, MonthDays)

(***************************************************************************)
(* Environment: the clock, and an operator clearing users.is_active (no    *)
(* endpoint writes the column; the guards read it).                        *)
(***************************************************************************)
TickUntil(minutes, deadline) ==
    /\ now + minutes <= deadline
    /\ now' = now + minutes
    /\ UNCHANGED <<db, tokens, inflight, last>>

Tick(minutes) == TickUntil(minutes, MaxTime)

deactivate_user(id) ==
    /\ \E u \in users :
          /\ u.id = id
          /\ u.is_active = 1
          /\ users' = (users \ {u}) \cup {[u EXCEPT !.is_active = 0]}
    /\ UNCHANGED <<expenses, nextUserId, nextExpenseId, tokens, now, inflight, last>>

(***************************************************************************)
(* Request inputs of the expense endpoints.                                *)
(***************************************************************************)
ExpenseIds == 1..MaxExpenses

ExpenseCreateInputs(titles, amounts, categories, descriptions, dates, owners) ==
    [title : titles, amount : amounts, category : categories,
     description : descriptions, date : dates, user_id : owners]

ExpenseUpdateInputs(titles, amounts, categories, descriptions, dates) ==
    [title : titles, amount : amounts, category : categories,
     description : descriptions, date : dates]

\* One well-formed body of each kind.
BasicCreate ==
    ExpenseCreateInputs({"t1"}, {1}, {"food"}, {None}, {NullNum}, {NullNum})

BasicUpdate ==
    ExpenseUpdateInputs({Absent}, {2}, {Absent}, {Absent}, {AbsentNum})

(***************************************************************************)
(* The requests of the two routers.                                        *)
(***************************************************************************)
ProfileRequests(patches) ==
    \/ \E t \in TokenInputs : get_current_user_profile(t)
    \/ \E t \in TokenInputs, p \in patches, s \in Salts : update_profile(t, p, s)
    \/ \E t \in TokenInputs : delete_account(t)

ExpenseRequests(creates, updates, dates) ==
    \/ \E t \in TokenInputs, b \in creates : create_expense(t, b)
    \/ \E t \in TokenInputs, c \in {None, "food"}, sd \in dates, ed \in dates :
          get_expenses(t, 0, MaxPageSize, c, sd, ed)
    \/ \E t \in TokenInputs, sd \in dates, ed \in dates :
          get_expense_statistics(t, sd, ed)
    \/ \E t \in TokenInputs, id \in ExpenseIds : get_expense(t, id)
    \/ \E t \in TokenInputs, id \in ExpenseIds, p \in updates : update_expense(t, id, p)
    \/ \E t \in TokenInputs, id \in ExpenseIds : delete_expense(t, id)
    \/ \E t \in TokenInputs : get_week_expenses(t)
    \/ \E t \in TokenInputs : get_month_expenses(t)

Environment ==
    \/ Tick(TickStep)
    \/ \E id \in 1..MaxUsers : deactivate_user(id)

(***************************************************************************)
(* The application of app/main.py: only the auth router is included, and   *)
(* a path of a router that is not included is answered 404 by the          *)
(* framework.                                                              *)
(***************************************************************************)
IncludedRouters == {"auth"}

Served(router, op, handler) ==
    IF router \in IncludedRouters THEN handler ELSE RouteNotFound(op)

Init ==
    /\ users = {}
    /\ expenses = {}
    /\ nextUserId = 1
    /\ nextExpenseId = 1
    /\ tokens = {}
    /\ now = StartTime
    /\ inflight = {}
    /\ last = Response("none", NoBody, 0, None, None, NoBody)

AppAuthRequests ==
    \/ \E e \in Emails, u \in UsernameInputs, p \in PasswordInputs,
          f \in FullNameInputs, s \in Salts :
          Served("auth", "register", register(e, u, p, f, s))
    \/ \E i \in Emails \cup UsernameInputs, p \in PasswordInputs :
          Served("auth", "login", login(i, p))
    \/ Served("auth", "logout", logout)
    \/ \E t \in TokenInputs :
          Served("auth", "get_current_user_profile", get_current_user_profile(t))
    \/ \E t \in TokenInputs, p \in UserUpdateInputs, s \in Salts :
          Served("auth", "update_profile", update_profile(t, p, s))
    \/ \E t \in TokenInputs :
          Served("auth", "delete_account", delete_account(t))

AppExpenseRequests ==
    \/ \E t \in TokenInputs, b \in BasicCreate :
          Served("expenses", "create_expense", create_expense(t, b))
    \/ \E t \in TokenInputs, c \in {None, "food"} :
          Served("expenses", "get_expenses",
                 get_expenses(t, 0, MaxPageSize, c, NullNum, NullNum))
    \/ \E t \in TokenInputs :
          Served("expenses", "get_expense_statistics",
                 get_expense_statistics(t, NullNum, NullNum))
    \/ \E t \in TokenInputs, id \in ExpenseIds :
          Served("expenses", "get_expense", get_expense(t, id))
    \/ \E t \in TokenInputs, id \in ExpenseIds, p \in BasicUpdate :
          Served("expenses", "update_expense", update_expense(t, id, p))
    \/ \E t \in TokenInputs, id \in ExpenseIds :
          Served("expenses", "delete_expense", delete_expense(t, id))
    \/ \E t \in TokenInputs :
          Served("expenses", "get_week_expenses", get_week_expenses(t))
    \/ \E t \in TokenInputs :
          Served("expenses", "get_month_expenses", get_month_expenses(t))

Next ==
    \/ AppAuthRequests
    \/ AppExpenseRequests
    \/ Environment

Spec == Init /\ [][Next]_vars

(***************************************************************************)
(* The handlers of both routers, driven directly, from a state with two    *)
(* users registered and logged in.                                         *)
(***************************************************************************)
SeedUsers ==
    {[id |-> 1, email |-> "a@x.io", username |-> "al",
      hashed_password |-> get_password_hash("secret1", 1),
      full_name |-> None, is_active |-> 1],
     [id |-> 2, email |-> "b@x.io", username |-> "a@x.io",
      hashed_password |-> get_password_hash("secret2", 1),
      full_name |-> None, is_active |-> 1]}

SeedTokens ==
    {[sub |-> u.username, typ |-> None, sig |-> TRUE,
      exp |-> StartTime + ACCESS_TOKEN_EXPIRE_MINUTES] : u \in SeedUsers}

InitSeeded ==
    /\ users = SeedUsers
    /\ expenses = {}
    /\ nextUserId = 3
    /\ nextExpenseId = 1
    /\ tokens = SeedTokens
    /\ now = StartTime
    /\ inflight = {}
    /\ last = Response("none", NoBody, 0, None, None, NoBody)

\* Every endpoint that depends on get_current_active_user, with one
\* well-formed body each.
GuardPatches ==
    {[email |-> None, username |-> None, full_name |-> "Al", password |-> None]}

NextGuard ==
    \/ ProfileRequests(GuardPatches)
    \/ ExpenseRequests(BasicCreate, BasicUpdate, {NullNum})
    \/ Environment

SpecGuard == InitSeeded /\ [][NextGuard]_vars

(***************************************************************************)
(* The expense ledger's writing handlers and get, driven directly by the   *)
(* two seeded users; a create body may carry a foreign user_id key.        *)
(***************************************************************************)
LedgerCreate ==
    ExpenseCreateInputs({"t1"}, {1, 0}, {"food"}, {None}, {NullNum},
                        {NullNum} \cup 1..MaxUsers)

LedgerUpdate ==
    ExpenseUpdateInputs({Absent}, {AbsentNum, 2, 0}, {Absent}, {Absent, "d"},
                        {AbsentNum})

NextLedger ==
    \/ \E t \in TokenInputs, b \in LedgerCreate : create_expense(t, b)
    \/ \E t \in TokenInputs, id \in ExpenseIds : get_expense(t, id)
    \/ \E t \in TokenInputs, id \in ExpenseIds, p \in LedgerUpdate :
          update_expense(t, id, p)
    \/ \E t \in TokenInputs, id \in ExpenseIds : delete_expense(t, id)
    \/ Environment

SpecLedger == InitSeeded /\ [][NextLedger]_vars

(***************************************************************************)
(* PUT /api/expenses/{id} driven directly: user 1 is logged in, each user  *)
(* owns one expense, and a patch sets, nulls or omits each field.  The     *)
(* clock moves by minutes, within the lifetime of the token.               *)
(***************************************************************************)
SeedExpenses ==
    {[id |-> u.id, user_id |-> u.id, title |-> "t1", amount |-> 1,
      category |-> "food", description |-> None, date |-> StartTime,
      created_at |-> StartTime, updated_at |-> StartTime] : u \in SeedUsers}

InitUpdate ==
    /\ users = SeedUsers
    /\ expenses = SeedExpenses
    /\ nextUserId = MaxUsers + 1
    /\ nextExpenseId = MaxExpenses + 1
    /\ tokens = {t \in SeedTokens : t.sub = "al"}
    /\ now = StartTime
    /\ inflight = {}
    /\ last = Response("none", NoBody, 0, None, None, NoBody)

ExpensePatchFields(p) ==
    {f \in {"title", "category", "description"} : p[f] # Absent}
       \cup {f \in {"amount", "date"} : p[f] # AbsentNum}

UpdatePatches ==
    {p \in ExpenseUpdateInputs({Absent, "t2"}, {AbsentNum, 0, 2},
                               {Absent, None, "transport"}, {Absent, None, "d"},
                               {AbsentNum, NullNum}) :
        Cardinality(ExpensePatchFields(p)) <= MaxExpensePatchFields}

NextUpdate ==
    \/ \E t \in TokenInputs, id \in ExpenseIds, p \in UpdatePatches :
          update_expense(t, id, p)
    \/ now < StartTime + MaxTicks /\ Tick(1)

SpecUpdate == InitUpdate /\ [][NextUpdate]_vars

(***************************************************************************)
(* GET /api/expenses/statistics as a function of the table: the table is   *)
(* drawn from the rows below, whose amounts are floats that add exactly    *)
(* (1 + 1) or with rounding (1 + 2^MantissaBits); user 1 is logged in.     *)
(***************************************************************************)
StatAmounts == {1, Pow2(MantissaBits)}

StatDates == {StartTime - Day, StartTime}

StatRow(id, user_id, r) ==
    [id |-> id, user_id |-> user_id, title |-> "t1", amount |-> r.amount,
     category |-> r.category, description |-> None, date |-> r.date,
     created_at |-> StartTime, updated_at |-> StartTime]

\* MaxStatRows expenses of user 1, and one of user 2 dated within every
\* range that has no upper bound.
StatTables ==
    {{StatRow(i, 1, f[i]) : i \in 1..MaxStatRows}
        \cup {StatRow(MaxStatRows + 1, 2,
                      [amount |-> Pow2(MantissaBits), category |-> "food",
                       date |-> StartTime])} :
        f \in [1..MaxStatRows ->
                 [amount : StatAmounts, category : {"food", "transport"},
                  date : StatDates]]}

InitStats ==
    /\ users = SeedUsers
    /\ expenses \in StatTables
    /\ nextUserId = MaxUsers + 1
    /\ nextExpenseId = MaxStatRows + 2
    /\ tokens = {t \in SeedTokens : t.sub = "al"}
    /\ now = StartTime
    /\ inflight = {}
    /\ last = Response("none", NoBody, 0, None, None, NoBody)

\* No bound, or a bound that some row's date equals.
NextStats ==
    \E t \in TokenInputs, sd \in {NullNum, StartTime},
       ed \in {NullNum, StartTime - Day} : get_expense_statistics(t, sd, ed)

SpecStats == InitStats /\ [][NextStats]_vars

(***************************************************************************)
(* GET /api/expenses/ as a function of the table and the query: user 1 is  *)
(* logged in and owns MaxListRows expenses, some dated alike and some      *)
(* without a date; user 2 owns one.                                        *)
(***************************************************************************)
ListTables ==
    {{StatRow(i, 1, [amount |-> 1, category |-> f[i].category, date |-> f[i].date]) :
         i \in 1..MaxListRows}
        \cup {StatRow(MaxListRows + 1, 2,
                      [amount |-> 1, category |-> "food", date |-> StartTime])} :
        f \in {g \in [1..MaxListRows ->
                        [category : {"food", "transport"},
                         date : {NullNum} \cup StatDates]] :
                  g[MaxListRows].category = "food"}}

InitList ==
    /\ users = SeedUsers
    /\ expenses \in ListTables
    /\ nextUserId = MaxUsers + 1
    /\ nextExpenseId = MaxListRows + 2
    /\ tokens = {t \in SeedTokens : t.sub = "al"}
    /\ now = StartTime
    /\ inflight = {}
    /\ last = Response("none", NoBody, 0, None, None, NoBody)

\* No date filter, a lower bound, and both bounds on one day.
ListRanges ==
    {<<NullNum, NullNum>>, <<StartTime, NullNum>>,
     <<StartTime - Day, StartTime - Day>>}

\* Offsets and page sizes on both sides of the limits of the query.
NextList ==
    \E t \in TokenInputs, skip \in (0 - 1)..(MaxListRows - 2),
       limit \in {0, 1, MaxListRows - 1, MaxPageSize},
       c \in {None, "food"}, r \in ListRanges :
       get_expenses(t, skip, limit, c, r[1], r[2])

SpecList == InitList /\ [][NextList]_vars

(***************************************************************************)
(* Accounts with expenses: the two seeded users create, read and delete    *)
(* expenses and delete their accounts.                                     *)
(***************************************************************************)
NextAccount ==
    \/ \E t \in TokenInputs, b \in BasicCreate : create_expense(t, b)
    \/ \E t \in TokenInputs, id \in ExpenseIds : get_expense(t, id)
    \/ \E t \in TokenInputs, id \in ExpenseIds : delete_expense(t, id)
    \/ \E t \in TokenInputs : delete_account(t)
    \/ Environment

SpecAccount == InitSeeded /\ [][NextAccount]_vars

(***************************************************************************)
(* PUT /api/auth/me driven by the two seeded users, with patches of up to  *)
(* two fields, empty strings included, and logins in between.              *)
(***************************************************************************)
ProfilePatches ==
    {p \in [email : {None} \cup Emails,
            username : {None, "", "bo"} \cup UsernameInputs,
            full_name : {None, "", "Al"},
            password : {None, "secret3", "short"}] :
        Cardinality(PatchFields(p)) <= MaxPatchFields + 1}

NextProfile ==
    \/ \E t \in TokenInputs, p \in ProfilePatches, s \in Salts : update_profile(t, p, s)
    \/ \E i \in {"al", "bo"}, p \in {"secret1", "secret3"} : login(i, p)

SpecProfile == InitSeeded /\ [][NextProfile]_vars

(***************************************************************************)
(* The functions of core/security.py called directly, with logins and a    *)
(* clock that can pass the expiry of an access token and of a reset token. *)
(***************************************************************************)
TtlInputs == {NullNum, 0, 1, ACCESS_TOKEN_EXPIRE_MINUTES}
SubInputs == {"al", None}
TokenMaxTime == StartTime + MaxTicks * (RESET_TOKEN_EXPIRE_MINUTES + 1)
Times == StartTime .. (TokenMaxTime + RESET_TOKEN_EXPIRE_MINUTES + 1)

ForgedResetTokens ==
    {[sub |-> "a@x.io", typ |-> "password_reset", sig |-> FALSE,
      exp |-> TokenMaxTime + RESET_TOKEN_EXPIRE_MINUTES]}

SecurityTokenInputs == tokens \cup ForgedTokens \cup ForgedResetTokens

Issued(op, req, token) ==
    /\ Cardinality(tokens \cup {token}) <= MaxTokens
    /\ tokens' = tokens \cup {token}
    /\ last' = Response(op, req, 200, None, None, token)
    /\ UNCHANGED <<db, now, inflight>>

CreateAccessToken(sub, expires_delta) ==
    Issued("create_access_token",
           [sub |-> sub, expires_delta |-> expires_delta, at |-> now],
           create_access_token([sub |-> sub, typ |-> None], expires_delta))

CreateResetPasswordToken(email) ==
    Issued("create_reset_password_token",
           [sub |-> email, expires_delta |-> RESET_TOKEN_EXPIRE_MINUTES, at |-> now],
           create_reset_password_token(email))

VerifyToken(token) ==
    LET username == verify_token(token)
    IN
    /\ last' = Response("verify_token", [token |-> token],
                        IF username = None THEN 401 ELSE 200,
                        None, None, [sub |-> username])
    /\ UNCHANGED <<db, tokens, now, inflight>>

VerifyResetToken(token) ==
    /\ last' = Response("verify_reset_token", [token |-> token], 200,
                        None, None, [sub |-> verify_reset_token(token)])
    /\ UNCHANGED <<db, tokens, now, inflight>>

InitToken ==
    /\ users = SeedUsers
    /\ expenses = {}
    /\ nextUserId = 3
    /\ nextExpenseId = 1
    /\ tokens = {}
    /\ now = StartTime
    /\ inflight = {}
    /\ last = Response("none", NoBody, 0, None, None, NoBody)

NextToken ==
    \/ \E sub \in SubInputs, ttl \in TtlInputs : CreateAccessToken(sub, ttl)
    \/ \E email \in Emails : CreateResetPasswordToken(email)
    \/ \E t \in SecurityTokenInputs : VerifyToken(t)
    \/ \E t \in SecurityTokenInputs : VerifyResetToken(t)
    \/ login("al", "secret1")
    \/ \E m \in {TickStep, RESET_TOKEN_EXPIRE_MINUTES + 1} : TickUntil(m, TokenMaxTime)

SpecToken == InitToken /\ [][NextToken]_vars

(***************************************************************************)
(* register and update_profile as the two steps a concurrent request can   *)
(* be caught between: the uniqueness queries, and the commit.  Workers     *)
(* share only the database, whose unique indexes on users.email and        *)
(* users.username refuse a duplicate at the commit: sqlalchemy raises      *)
(* IntegrityError, neither handler catches it, and the framework answers   *)
(* 500.                                                                    *)
(***************************************************************************)
FreeRid == CHOOSE rid \in 1..(MaxInflight + 1) : \A r \in inflight : r.rid # rid

InternalServerError(op, req) ==
    Response(op, req, 500, "Internal Server Error", None, NoBody)

\* The row violates a unique index of table users.
ViolatesUnique(row) ==
    \E o \in users :
       /\ o.id # row.id
       /\ o.email = row.email \/ o.username = row.username

register_check(email, username, password, full_name, salt) ==
    LET req == [email |-> email, username |-> username]
    IN
    /\ IF ~UserCreateValid(email, username, password)
       THEN /\ last' = Response("register", req, 422, "validation", None, NoBody)
            /\ UNCHANGED inflight
       ELSE IF RegisterConflict(email, username) # None
       THEN /\ last' = Response("register", req, 400, RegisterConflict(email, username),
                                None, NoBody)
            /\ UNCHANGED inflight
       ELSE /\ Cardinality(inflight) < MaxInflight
            /\ inflight' = inflight \cup
                  {[op |-> "register", rid |-> FreeRid, req |-> req,
                    new_user |-> [email |-> email, username |-> username,
                                  hashed_password |-> get_password_hash(password, salt),
                                  full_name |-> full_name, is_active |-> 1]]}
            /\ UNCHANGED last
    /\ UNCHANGED <<db, tokens, now>>

register_write(r) ==
    LET new_user == [id |-> nextUserId] @@ r.new_user
    IN
    /\ r \in inflight
    /\ r.op = "register"
    /\ inflight' = inflight \ {r}
    /\ IF ViolatesUnique(new_user)
       THEN /\ last' = InternalServerError("register", r.req)
            /\ UNCHANGED db
       ELSE /\ nextUserId <= MaxUsers
            /\ users' = users \cup {new_user}
            /\ nextUserId' = nextUserId + 1
            /\ last' = Response("register", r.req, 201, None, None, UserResponse(new_user))
            /\ UNCHANGED <<expenses, nextExpenseId>>
    /\ UNCHANGED <<tokens, now>>

update_profile_check(token, user_update, salt) ==
    LET auth == get_current_active_user(token)
        current_user == auth.user
        req == [email |-> user_update.email, username |-> user_update.username]
    IN
    /\ IF auth.status # 200
       THEN /\ last' = Rejected("update_profile", req, auth)
            /\ UNCHANGED inflight
       ELSE IF ~UserUpdateValid(user_update)
       THEN /\ last' = Response("update_profile", req, 422, "validation", None, NoBody)
            /\ UNCHANGED inflight
       ELSE IF UpdateConflict(current_user, user_update) # None
       THEN /\ last' = Response("update_profile", req, 400,
                                UpdateConflict(current_user, user_update), None, NoBody)
            /\ UNCHANGED inflight
       ELSE /\ Cardinality(inflight) < MaxInflight
            /\ inflight' = inflight \cup
                  {[op |-> "update_profile", rid |-> FreeRid, req |-> req,
                    current_user |-> current_user, user_update |-> user_update,
                    hashed_password |-> get_password_hash(user_update.password, salt)]}
            /\ UNCHANGED last
    /\ UNCHANGED <<db, tokens, now>>

\* The UPDATE of the commit: the attributes the handler assigned, written to
\* the row of the user's id.
update_profile_write(r) ==
    LET row == CHOOSE u \in users : u.id = r.current_user.id
        updated ==
            [row EXCEPT
                !.email = IF Truthy(r.user_update.email)
                          THEN r.user_update.email ELSE @,
                !.username = IF Truthy(r.user_update.username)
                             THEN r.user_update.username ELSE @,
                !.full_name = IF Truthy(r.user_update.full_name)
                              THEN r.user_update.full_name ELSE @,
                !.hashed_password = IF Truthy(r.user_update.password)
                                    THEN r.hashed_password ELSE @]
    IN
    /\ r \in inflight
    /\ r.op = "update_profile"
    /\ \E u \in users : u.id = r.current_user.id
    /\ inflight' = inflight \ {r}
    /\ IF ViolatesUnique(updated)
       THEN /\ last' = InternalServerError("update_profile", r.req)
            /\ UNCHANGED users
       ELSE /\ users' = (users \ {row}) \cup {updated}
            /\ last' = Response("update_profile", r.req, 200, None, None,
                                UserResponse(updated))
    /\ UNCHANGED <<expenses, nextUserId, nextExpenseId, tokens, now>>

RacePatches ==
    {p \in UserUpdateInputs : p.password = None /\ p.full_name = None}

InitOneUser ==
    /\ users = {u \in SeedUsers : u.id = 1}
    /\ expenses = {}
    /\ nextUserId = 2
    /\ nextExpenseId = 1
    /\ tokens = {t \in SeedTokens : t.sub = "al"}
    /\ now = StartTime
    /\ inflight = {}
    /\ last = Response("none", NoBody, 0, None, None, NoBody)

NextRace ==
    \/ \E e \in Emails, u \in {"al", "bo"}, s \in Salts :
          register_check(e, u, "secret2", None, s)
    \/ \E r \in inflight : register_write(r)
    \/ \E t \in TokenInputs, p \in RacePatches, s \in Salts :
          update_profile_check(t, p, s)
    \/ \E r \in inflight : update_profile_write(r)

SpecRace == InitOneUser /\ [][NextRace]_vars

(***************************************************************************)
(* The life of one session: user 1 has registered as "al" and logged in;   *)
(* then accounts are registered, renamed and deleted while the token is    *)
(* presented again.  No further login happens, so the token in circulation *)
(* is the one issued to user 1.                                            *)
(***************************************************************************)
NextSession ==
    \/ \E e \in Emails, u \in {"al", "bo"}, s \in Salts :
          register(e, u, "secret2", None, s)
    \/ \E t \in TokenInputs, p \in RacePatches, s \in Salts : update_profile(t, p, s)
    \/ \E t \in TokenInputs : delete_account(t)
    \/ \E t \in TokenInputs : get_current_user_profile(t)
    \/ Tick(TickStep)

SpecSession == InitOneUser /\ [][NextSession]_vars

(***************************************************************************)
(* POST and PUT /api/expenses driven directly with amounts that are        *)
(* positive, zero, negative or null and categories inside and outside the  *)
(* enum.                                                                   *)
(***************************************************************************)
NegativeAmount == 0 - 3

ValidationCreate ==
    ExpenseCreateInputs({"t1"}, {1, 0, NegativeAmount}, {"food", "gold"}, {None},
                        {NullNum}, {NullNum})

ValidationUpdate ==
    {p \in ExpenseUpdateInputs({Absent}, {AbsentNum, NullNum, 2, 0, NegativeAmount},
                               {Absent, None, "other", "gold"}, {Absent},
                               {AbsentNum}) :
        Cardinality(ExpensePatchFields(p)) <= MaxExpensePatchFields}

NextValidation ==
    \/ \E t \in TokenInputs, b \in ValidationCreate : create_expense(t, b)
    \/ \E t \in TokenInputs, id \in ExpenseIds, p \in ValidationUpdate :
          update_expense(t, id, p)

SpecValidation == InitSeeded /\ [][NextValidation]_vars

(***************************************************************************)
(* Properties.                                                             *)
(***************************************************************************)

\* C1: in every reachable state no two distinct rows of users share an
\* e-mail address and no two share a username.
C1_UniqueEmailAndUsername ==
    \A u, v \in users :
        u # v => u.id # v.id /\ u.email # v.email /\ u.username # v.username

\* A register or a profile update was refused for a duplicate while two
\* users exist.
C1_Witness ==
    /\ Cardinality(users) = 2
    /\ last.op = "update_profile"
    /\ last.status = 400
    /\ last.detail = "Username already taken"

\* C2: a register with a well-formed body fails with 400 when the e-mail or
\* the username is taken (the e-mail reported first) and leaves the tables
\* as they are; otherwise it adds exactly one user, active, whose stored
\* password is a hash that verifies the supplied password.
C2_RegisterStep(email, username, password) ==
    LET emailTaken == \E x \in users : x.email = email
        nameTaken == \E x \in users : x.username = username
    IN IF emailTaken \/ nameTaken
       THEN /\ last'.status = 400
            /\ emailTaken => last'.detail = "Email already registered"
            /\ ~emailTaken => last'.detail = "Username already taken"
            /\ users' = users
            /\ nextUserId' = nextUserId
       ELSE /\ last'.status = 201
            /\ \E n \in users' :
                  /\ n \notin users
                  /\ \A x \in users : x.id # n.id
                  /\ users' = users \cup {n}
                  /\ n.email = email
                  /\ n.username = username
                  /\ n.is_active = 1
                  /\ n.hashed_password.scheme = "bcrypt"
                  /\ verify_password(password, n.hashed_password)
                  /\ \A q \in PasswordInputs \ {password} :
                        ~verify_password(q, n.hashed_password)

C2_Register ==
    [][last'.op = "register" =>
          \A p \in PasswordInputs, f \in FullNameInputs, s \in Salts :
             (/\ register(last'.req.email, last'.req.username, p, f, s)
              /\ UserCreateValid(last'.req.email, last'.req.username, p))
                 => C2_RegisterStep(last'.req.email, last'.req.username, p)]_vars

\* A register was refused for its e-mail while its username was taken too.
C2_Witness ==
    /\ last.op = "register"
    /\ last.status = 400
    /\ last.detail = "Email already registered"
    /\ \E x \in users : x.username = last.req.username
    /\ \E x \in users : x.email = last.req.email

\* C3: every active user can log in with the correct password under the
\* username and under the e-mail address, and the token's subject is that
\* user's username.
C3_LoginByUsernameOrEmail ==
    [][last'.op = "login" =>
          \A p \in PasswordInputs :
             login(last'.req.identifier, p) =>
                \A U \in users :
                   (/\ U.is_active = 1
                    /\ verify_password(p, U.hashed_password)
                    /\ last'.req.identifier \in {U.username, U.email})
                      => /\ last'.status = 200
                         /\ last'.body.sub = U.username]_vars

\* The user a login identifier matches: by username, else by e-mail.
C4_Matched(identifier) ==
    IF \E u \in users : u.username = identifier
    THEN CHOOSE u \in users : u.username = identifier
    ELSE IF \E u \in users : u.email = identifier
    THEN CHOOSE u \in users : u.email = identifier
    ELSE NoUser

C4_NoEffect ==
    last'.status # 200 =>
        /\ last'.body = NoBody
        /\ tokens' = tokens
        /\ UNCHANGED db

\* C4 as stated: 401 whenever nothing matches or the password does not
\* verify, 400 whenever the matched user is inactive; a failed login issues
\* no token and changes nothing.
C4_LoginFailures_Original ==
    [][last'.op = "login" =>
          \A p \in PasswordInputs :
             login(last'.req.identifier, p) =>
                LET m == C4_Matched(last'.req.identifier)
                IN /\ (m = NoUser \/ ~verify_password(p, m.hashed_password))
                         => last'.status = 401
                   /\ (m # NoUser /\ m.is_active = 0) => last'.status = 400
                   /\ C4_NoEffect]_vars

\* C4 as amended: 401 whenever nothing matches or the password does not
\* verify; 400 whenever the password verifies and the matched user is
\* inactive; a failed login issues no token and changes nothing.
C4_LoginFailures ==
    [][last'.op = "login" =>
          \A p \in PasswordInputs :
             login(last'.req.identifier, p) =>
                LET m == C4_Matched(last'.req.identifier)
                IN /\ (m = NoUser \/ ~verify_password(p, m.hashed_password))
                         => /\ last'.status = 401
                            /\ last'.hdr = "Bearer"
                   /\ (/\ m # NoUser
                       /\ verify_password(p, m.hashed_password)
                       /\ m.is_active = 0) => last'.status = 400
                   /\ C4_NoEffect]_vars

\* A login with the right password was refused because the account is
\* inactive.
C4_Witness ==
    /\ last.op = "login"
    /\ last.status = 400
    /\ \E u \in users :
          /\ last.req.identifier \in {u.username, u.email}
          /\ u.is_active = 0

\* What C5 requires of a bearer token: well signed, not expired, carrying a
\* subject; and the users of that name.
C5_TokenValid(t) ==
    /\ t # NoToken
    /\ t.sig
    /\ t.exp >= now
    /\ t.sub # None

C5_Holders(t) == {u \in users : u.username = t.sub}

C5_Accepted(t) ==
    /\ C5_TokenValid(t)
    /\ \E u \in C5_Holders(t) : u.is_active = 1

C5_Inactive(t) ==
    /\ C5_TokenValid(t)
    /\ C5_Holders(t) # {}
    /\ \A u \in C5_Holders(t) : u.is_active = 0

\* Every token a request could carry, forgeable or not.
AllTokens ==
    {NoToken} \cup
    [sub : {None} \cup UsernameInputs, typ : {None, "password_reset"},
     sig : BOOLEAN, exp : {now - 1, now, now + 1}]

C5_GuardFunction ==
    \A t \in AllTokens :
        LET r == get_current_active_user(t)
        IN IF C5_Accepted(t)
           THEN /\ r.status = 200
                /\ r.user \in C5_Holders(t)
                /\ r.user.is_active = 1
           ELSE IF C5_Inactive(t)
           THEN r.status = 400 /\ r.hdr = None
           ELSE r.status = 401 /\ r.hdr = "Bearer"

\* The request of NextGuard named op, carrying token t.
ProtectedRequest(op, t) ==
    CASE op = "get_current_user_profile" -> get_current_user_profile(t)
      [] op = "update_profile" ->
            \E p \in GuardPatches, s \in Salts : update_profile(t, p, s)
      [] op = "delete_account" -> delete_account(t)
      [] op = "create_expense" -> \E b \in BasicCreate : create_expense(t, b)
      [] op = "get_expenses" ->
            \E c \in {None, "food"} :
               get_expenses(t, 0, MaxPageSize, c, NullNum, NullNum)
      [] op = "get_expense_statistics" ->
            get_expense_statistics(t, NullNum, NullNum)
      [] op = "get_expense" -> \E id \in ExpenseIds : get_expense(t, id)
      [] op = "update_expense" ->
            \E id \in ExpenseIds, p \in BasicUpdate : update_expense(t, id, p)
      [] op = "delete_expense" -> \E id \in ExpenseIds : delete_expense(t, id)
      [] op = "get_week_expenses" -> get_week_expenses(t)
      [] op = "get_month_expenses" -> get_month_expenses(t)
      [] OTHER -> FALSE

ExpenseOps ==
    {"create_expense", "get_expenses", "get_expense_statistics", "get_expense",
     "update_expense", "delete_expense", "get_week_expenses", "get_month_expenses"}

C5_GuardedStep(t) ==
    IF C5_Accepted(t)
    THEN \* the handler ran, for the user the token names
         /\ last'.status \notin {401, 422}
         /\ last'.detail # "Inactive user"
         /\ last'.op \in ExpenseOps =>
               \E u \in C5_Holders(t) : last'.req.caller = u.id
         /\ last'.op = "get_current_user_profile" => last'.body.username = t.sub
         /\ last'.op = "update_profile" => last'.body.username = t.sub
         /\ last'.op = "delete_account" => users' = users \ C5_Holders(t)
    ELSE \* rejected: nothing is stored
         /\ UNCHANGED <<db, tokens>>
         /\ last'.body = NoBody
         /\ IF C5_Inactive(t)
            THEN last'.status = 400 /\ last'.hdr = None
            ELSE last'.status = 401 /\ last'.hdr = "Bearer"

\* C5: every protected operation runs its handler only for a token that the
\* guard resolves to an existing active user named by the token's subject;
\* an absent, badly signed, expired or subject-less token, or one naming no
\* user, gets 401 with the Bearer challenge, a token of an inactive user
\* gets 400, and a rejected request changes nothing stored.
C5_AuthGuard ==
    /\ []C5_GuardFunction
    /\ [][\A t \in TokenInputs :
              ProtectedRequest(last'.op, t) => C5_GuardedStep(t)]_vars

\* A well-signed, unexpired token of a deactivated user was refused by an
\* expense endpoint.
C5_Witness ==
    /\ last.op = "update_expense"
    /\ last.status = 400
    /\ last.detail = "Inactive user"
    /\ \E u \in users : u.is_active = 0
    /\ expenses # {}

\* C6: the application serves every expense endpoint: a request to any of
\* them that carries a valid token of an active user reaches the handler of
\* the expense router, so it is never answered by the framework's 404 for
\* an unknown route.
C6_ExpenseEndpointsServed ==
    [][last'.op \in ExpenseOps =>
          \A t \in TokenInputs :
             (/\ C5_Accepted(t)
              /\ Served("expenses", last'.op, ProtectedRequest(last'.op, t)))
                => ~(last'.status = 404 /\ last'.detail = "Not Found")]_vars

\* The get, update or delete request named op for expense id, carrying
\* token t (an update carries the patch the response echoes).
C7_Request(op, t, id) ==
    CASE op = "get_expense" -> get_expense(t, id)
      [] op = "update_expense" -> update_expense(t, id, last'.req.patch)
      [] op = "delete_expense" -> delete_expense(t, id)
      [] OTHER -> FALSE

C7_WellFormed(op) ==
    op = "update_expense" => ExpenseUpdateValid(last'.req.patch)

\* C7: a well-formed get, update or delete by an authenticated caller of an
\* expense id that the caller does not own is answered 404 "Expense not
\* found", the same response whether the id belongs to another user or to
\* nobody, and leaves every expense row as it is.
C7_NotOwnedIsNotFound ==
    [][last'.op \in {"get_expense", "update_expense", "delete_expense"} =>
          \A t \in TokenInputs :
             (/\ C5_Accepted(t)
              /\ C7_Request(last'.op, t, last'.req.id)
              /\ C7_WellFormed(last'.op)
              /\ \A u \in C5_Holders(t) :
                    ~\E e \in expenses : e.id = last'.req.id /\ e.user_id = u.id)
                => /\ last'.status = 404
                   /\ last'.detail = "Expense not found"
                   /\ last'.hdr = None
                   /\ last'.body = NoBody
                   /\ expenses' = expenses]_vars

\* An update of another user's expense was answered 404 and the row is
\* still there.
C7_Witness ==
    /\ last.op = "update_expense"
    /\ last.status = 404
    /\ last.req.caller # 0
    /\ \E e \in expenses : e.id = last.req.id /\ e.user_id # last.req.caller

\* C8: a well-formed create by an authenticated caller adds exactly one
\* expense, with a fresh id and the caller's id as user_id whatever user_id
\* the body carries, and changes no other expense; and no step of the
\* ledger changes the user_id of a stored expense.
C8_CreateAttributesToCaller ==
    [][/\ last'.op = "create_expense" =>
             \A t \in TokenInputs, b \in LedgerCreate :
                (/\ C5_Accepted(t)
                 /\ create_expense(t, b)
                 /\ ExpenseCreateValid(b))
                   => \E n \in expenses' :
                         /\ expenses' = expenses \cup {n}
                         /\ \A e \in expenses : e.id # n.id
                         /\ \E u \in C5_Holders(t) : n.user_id = u.id
                         /\ n.title = b.title
                         /\ n.amount = b.amount
                         /\ n.category = b.category
                         /\ last'.status = 201
                         /\ last'.body = n
       /\ \A e \in expenses, f \in expenses' :
             e.id = f.id => f.user_id = e.user_id]_vars

\* An expense was created by a request whose body named the other user as
\* owner, and it is stored under the caller.
C8_Witness ==
    /\ last.op = "create_expense"
    /\ last.status = 201
    /\ last.req.owner \in 1..MaxUsers
    /\ last.req.owner # last.req.caller
    /\ last.body \in expenses
    /\ last.body.user_id = last.req.caller

\* What a patch makes of one field: the supplied value when the field is
\* present, the old value otherwise.
C9_Patched(supplied, absent, old) == IF supplied # absent THEN supplied ELSE old

C9_Frame(old, new, p) ==
    /\ DOMAIN new = DOMAIN old
    /\ new.id = old.id
    /\ new.user_id = old.user_id
    /\ new.created_at = old.created_at
    /\ new.updated_at = now
    /\ new.title = C9_Patched(p.title, Absent, old.title)
    /\ new.amount = C9_Patched(p.amount, AbsentNum, old.amount)
    /\ new.category = C9_Patched(p.category, Absent, old.category)
    /\ new.description = C9_Patched(p.description, Absent, old.description)
    /\ new.date = C9_Patched(p.date, AbsentNum, old.date)

\* C9: an update answered 200 replaces the addressed expense of the caller
\* by a row in which exactly the fields present in the patch have the
\* supplied values and updated_at is the current time, also when the patch
\* is empty; id, user_id, created_at, the absent fields and every other
\* expense are as before.
C9_UpdateFrame ==
    [][(last'.op = "update_expense" /\ last'.status = 200) =>
          \A t \in TokenInputs :
             update_expense(t, last'.req.id, last'.req.patch) =>
                \E old \in expenses, new \in expenses' :
                   /\ old.id = last'.req.id
                   /\ old.user_id = last'.req.caller
                   /\ expenses' \ {new} = expenses \ {old}
                   /\ Cardinality(expenses') = Cardinality(expenses)
                   /\ C9_Frame(old, new, last'.req.patch)
                   /\ last'.body = new]_vars

\* An empty patch was applied after the clock moved: nothing but updated_at
\* changed.
C9_Witness ==
    /\ last.op = "update_expense"
    /\ last.status = 200
    /\ ExpensePatchFields(last.req.patch) = {}
    /\ last.body \in expenses
    /\ last.body.updated_at = now
    /\ last.body.updated_at > last.body.created_at

\* The rows C10 counts: the caller's, dated within the inclusive range.
C10_Rows(caller, start_date, end_date) ==
    {e \in expenses :
        /\ e.user_id = caller
        /\ start_date # NullNum => (e.date # NullNum /\ start_date <= e.date)
        /\ end_date # NullNum => (e.date # NullNum /\ e.date <= end_date)}

\* The sum of the amounts of a set of rows, in exact arithmetic.
RECURSIVE C10_Sum(_)
C10_Sum(rows) ==
    IF rows = {} THEN 0
    ELSE LET e == CHOOSE x \in rows : TRUE
         IN e.amount + C10_Sum(rows \ {e})

\* The sum of the values of a mapping, in exact arithmetic.
RECURSIVE C10_ValueSum(_, _)
C10_ValueSum(m, keys) ==
    IF keys = {} THEN 0
    ELSE LET k == CHOOSE x \in keys : TRUE
         IN m[k] + C10_ValueSum(m, keys \ {k})

\* The values of a mapping added as floats, in some order of its keys.
C10_FloatValueSums(m) ==
    {PySum([i \in 1..Cardinality(DOMAIN m) |-> m[s[i]]]) :
        s \in Orderings(DOMAIN m)}

\* No addition over these rows rounds.
C10_AddsExactly(rows) == C10_Sum(rows) < Pow2(MantissaBits)

\* What both readings of C10 share: the rows counted, the keys of the
\* mapping, the average, and the all-zero answer for no rows.
C10_Shape(rows, r) ==
    /\ last'.status = 200
    /\ UNCHANGED db
    /\ r.expense_count = Cardinality(rows)
    /\ IF rows = {}
       THEN /\ r.total_expenses = 0
            /\ r.average_expense = [num |-> 0, den |-> 1]
            /\ r.by_category = <<>>
       ELSE /\ DOMAIN r.by_category = {e.category : e \in rows}
            /\ r.average_expense = [num |-> r.total_expenses, den |-> r.expense_count]

C10_Step(Post(_, _)) ==
    last'.op = "get_expense_statistics" =>
       \A t \in TokenInputs :
          (/\ C5_Accepted(t)
           /\ get_expense_statistics(t, last'.req.start_date, last'.req.end_date))
             => Post(C10_Rows(last'.req.caller, last'.req.start_date,
                              last'.req.end_date), last'.body)

C10_OriginalPost(rows, r) ==
    /\ C10_Shape(rows, r)
    /\ rows # {} =>
          \* total and the per-category totals are the sums the code
          \* accumulates, and the per-category totals add up to total,
          \* exactly or as floats in some order
          /\ \E s \in Orderings(rows) :
                /\ r.total_expenses = PySum(Amounts(s))
                /\ \A c \in DOMAIN r.by_category :
                      r.by_category[c] = PySum(SelectSeq2(s, c))
          /\ \/ C10_ValueSum(r.by_category, DOMAIN r.by_category) = r.total_expenses
             \/ r.total_expenses \in C10_FloatValueSums(r.by_category)

\* C10 as stated: statistics are computed over exactly the caller's
\* expenses dated in the inclusive range; count, total, the per-category
\* totals and the average are as described, and the per-category totals
\* sum to total.
C10_Statistics_Original == [][C10_Step(C10_OriginalPost)]_vars

C10_AmendedPost(rows, r) ==
    /\ C10_Shape(rows, r)
    /\ rows # {} =>
          /\ \E s \in Orderings(rows) :
                /\ r.total_expenses = PySum(Amounts(s))
                /\ \A c \in DOMAIN r.by_category :
                      r.by_category[c] = PySum(SelectSeq2(s, c))
          /\ C10_AddsExactly(rows) =>
                /\ r.total_expenses = C10_Sum(rows)
                /\ \A c \in DOMAIN r.by_category :
                      r.by_category[c] = C10_Sum({e \in rows : e.category = c})
                /\ C10_ValueSum(r.by_category, DOMAIN r.by_category) = r.total_expenses

\* C10 as amended: statistics are computed over exactly the caller's
\* expenses dated in the inclusive range; count is their number, total is
\* the float sum of their amounts in the order the query returned them,
\* by_category maps exactly the categories present to the float sum of that
\* category's amounts in the same order, average is total / count, and no
\* rows give zeros and an empty mapping; total and the per-category totals
\* are the exact sums, and the latter add up to total, when no addition
\* rounds.
C10_Statistics == [][C10_Step(C10_AmendedPost)]_vars

\* Statistics were returned whose per-category totals do not add up to the
\* total, while the table holds another user's expense.
C10_Witness ==
    /\ last.op = "get_expense_statistics"
    /\ last.status = 200
    /\ last.body.expense_count = MaxStatRows
    /\ C10_ValueSum(last.body.by_category, DOMAIN last.body.by_category)
          # last.body.total_expenses
    /\ last.body.total_expenses \notin C10_FloatValueSums(last.body.by_category)
    /\ \E e \in expenses : e.user_id # last.req.caller

\* The rows C11 lists: the caller's that pass every supplied filter.
C11_Rows(q) ==
    {e \in expenses :
        /\ e.user_id = q.caller
        /\ q.category # None => e.category = q.category
        /\ q.start_date # NullNum => (e.date # NullNum /\ q.start_date <= e.date)
        /\ q.end_date # NullNum => (e.date # NullNum /\ e.date <= q.end_date)}

C11_Min(a, b) == IF a < b THEN a ELSE b

\* page is the slice at offset skip, of at most limit elements, of some
\* arrangement of rows by date, newest first.
C11_IsPageOf(page, rows, skip, limit) ==
    \E s \in Orderings(rows) :
       /\ \A i, j \in 1..Len(s) : i < j => s[j].date <= s[i].date
       /\ Len(page) = C11_Min(limit, IF Len(s) > skip THEN Len(s) - skip ELSE 0)
       /\ \A i \in 1..Len(page) : page[i] = s[skip + i]

\* C11: for skip >= 0 and 1 <= limit <= 100, a list request of an
\* authenticated caller returns only the caller's expenses that pass every
\* supplied filter (category, start date, end date), newest date first, and
\* the page is the slice of that sequence from offset skip of at most limit
\* elements; nothing stored changes.
C11_ListPage ==
    [][last'.op = "get_expenses" =>
          LET q == last'.req
          IN \A t \in TokenInputs :
                (/\ C5_Accepted(t)
                 /\ get_expenses(t, q.skip, q.limit, q.category,
                                 q.start_date, q.end_date)
                 /\ q.skip >= 0 /\ q.limit >= 1 /\ q.limit <= 100
                 /\ q.category \in {None} \cup ExpenseCategory)
                   => /\ last'.status = 200
                      /\ C11_IsPageOf(last'.body, C11_Rows(q), q.skip, q.limit)
                      /\ UNCHANGED db]_vars

\* A second page of one element was returned under a category filter that
\* leaves out one of the caller's expenses.
C11_Witness ==
    /\ last.op = "get_expenses"
    /\ last.status = 200
    /\ last.req.skip = 1
    /\ last.req.limit = 1
    /\ last.req.category = "food"
    /\ Len(last.body) = 1
    /\ \E e \in expenses : e.user_id = last.req.caller /\ e.category # "food"
    /\ \E e \in expenses : e.user_id # last.req.caller /\ e.category = "food"

\* Every expense references an existing user.
C12_NoOrphans == \A e \in expenses : \E u \in users : u.id = e.user_id

C12_DeleteStep(t) ==
    \E U \in C5_Holders(t) :
       LET gone == {e \in expenses : e.user_id = U.id}
       IN /\ last'.status = 200
          /\ users' = users \ {U}
          /\ expenses' = expenses \ gone
          \* no caller that is left finds a deleted id
          /\ \A e \in gone, u \in users' : OwnedExpense(e.id, u.id)' = NoExpense
          /\ \A e \in gone, f \in expenses' : f.id # e.id

\* C12: a delete-account request of an authenticated caller removes the
\* caller's row and every expense of the caller in one step and nothing
\* else; every remaining expense references an existing user; the ids of
\* removed expenses are never given to another expense, and a get of an id
\* that no expense has is answered 404.
C12_DeleteCascade ==
    /\ []C12_NoOrphans
    /\ [][/\ last'.op = "delete_account" =>
                \A t \in TokenInputs :
                   (C5_Accepted(t) /\ delete_account(t)) => C12_DeleteStep(t)
          /\ \A f \in expenses' :
                (\E e \in expenses : e.id = f.id) \/ f.id >= nextExpenseId
          /\ last'.op = "get_expense" =>
                \A t \in TokenInputs :
                   (/\ C5_Accepted(t)
                    /\ get_expense(t, last'.req.id)
                    /\ \A e \in expenses : e.id # last'.req.id)
                      => last'.status = 404]_vars

\* After an account with an expense was deleted, the other user asked for
\* that expense and got 404, while the other user's own expense is kept.
C12_Witness ==
    /\ last.op = "get_expense"
    /\ last.status = 404
    /\ last.req.id < nextExpenseId
    /\ Cardinality(users) = MaxUsers - 1
    /\ \E u \in users : u.id = last.req.caller
    /\ \A e \in expenses : e.id # last.req.id
    /\ \E e \in expenses : e.user_id = last.req.caller

\* The patch claims a value of field f that differs from U's and that
\* another user holds.
C13_Collides(U, p, f) ==
    /\ p[f] # None
    /\ p[f] # U[f]
    /\ \E o \in users : o.id # U.id /\ o[f] = p[f]

C13_Applied(U, N, p) ==
    /\ N.id = U.id
    /\ N.is_active = U.is_active
    /\ \A f \in {"email", "username", "full_name"} :
          N[f] = IF p[f] # None THEN p[f] ELSE U[f]
    /\ IF p.password # None
       THEN /\ N.hashed_password.scheme = "bcrypt"
            /\ verify_password(p.password, N.hashed_password)
       ELSE N.hashed_password = U.hashed_password

C13_Step(U, p) ==
    IF C13_Collides(U, p, "email") \/ C13_Collides(U, p, "username")
    THEN /\ last'.status = 400
         /\ UNCHANGED db
    ELSE /\ last'.status = 200
         /\ \E N \in users' :
               /\ users' = (users \ {U}) \cup {N}
               /\ C13_Applied(U, N, p)
               \* the same patch applies again, to the same effect
               /\ UpdateConflict(N, p)' = None
               /\ \A f \in {"email", "username", "full_name"} :
                     p[f] # None => N[f] = p[f]

\* C13: a well-formed profile update of an authenticated caller fails with
\* 400 and changes nothing when its email or username differs from the
\* caller's and is held by another user; otherwise each of email, username,
\* full_name and password is changed exactly when the patch carries it, a
\* new password is stored as a hash that verifies it, and the same patch
\* can be applied again with the same result.
C13_ProfileUpdate ==
    [][last'.op = "update_profile" =>
          \A t \in TokenInputs, p \in ProfilePatches, s \in Salts :
             (/\ C5_Accepted(t)
              /\ UserUpdateValid(p)
              /\ update_profile(t, p, s))
                => \E U \in C5_Holders(t) : C13_Step(U, p)]_vars

\* C14: a signed token issued at t0 with ttl T and a subject verifies, giving
\* that subject, at every time before t0 + T and is refused at every time
\* after t0 + T; the token of a login lives ACCESS_TOKEN_EXPIRE_MINUTES; a
\* token without a subject or with a bad signature is always refused.
C14_TokenLifetime ==
    [][/\ (last'.op = "create_access_token" /\ last'.req.expires_delta # NullNum) =>
             \A time \in Times :
                /\ (last'.req.sub # None /\ time < last'.req.at + last'.req.expires_delta)
                      => VerifyTokenAt(last'.body, time) = last'.req.sub
                /\ time > last'.req.at + last'.req.expires_delta
                      => VerifyTokenAt(last'.body, time) = None
       /\ (last'.op = "login" /\ last'.status = 200) =>
             last'.body.exp = now + ACCESS_TOKEN_EXPIRE_MINUTES
       /\ last'.op = "verify_token" =>
             ((last'.req.token.sub = None \/ ~last'.req.token.sig)
                 => last'.status = 401)]_vars

\* A token that verify_reset_token may accept at the current time.
C15_GoodResetToken(token) ==
    /\ token.sig
    /\ token.exp >= now
    /\ token.typ = "password_reset"

\* C15: verify_reset_token returns the subject of a token whose signature is
\* valid, that is not expired and whose type is "password_reset", and None
\* for every other token (an access token of login, an expired reset token,
\* a forged one), never raising; the token of
\* create_reset_password_token(email) yields that email at every time up to
\* one hour after its issue and None at every later time.
C15_ResetToken ==
    [][/\ (last'.op = "verify_reset_token" /\ VerifyResetToken(last'.req.token)) =>
             /\ last'.status = 200
             /\ last'.body.sub = IF C15_GoodResetToken(last'.req.token)
                                 THEN last'.req.token.sub
                                 ELSE None
       /\ last'.op = "create_reset_password_token" =>
             \A time \in Times :
                /\ time < last'.req.at + RESET_TOKEN_EXPIRE_MINUTES
                      => VerifyResetTokenAt(last'.body, time) = last'.req.sub
                /\ time > last'.req.at + RESET_TOKEN_EXPIRE_MINUTES
                      => VerifyResetTokenAt(last'.body, time) = None
       /\ (last'.op = "login" /\ last'.status = 200) =>
             \A time \in Times : VerifyResetTokenAt(last'.body, time) = None]_vars

\* A reset token was accepted some time after its issue, while an unexpired
\* access token is in circulation.
C15_Witness ==
    /\ last.op = "verify_reset_token"
    /\ last.body.sub \in Emails
    /\ now > StartTime
    /\ \E t \in tokens : t.typ = None /\ t.sub # None /\ t.exp >= now

\* The committing request r claims an e-mail or a username that another
\* user's row holds.
C16_ClaimTaken(r) ==
    \/ /\ r.op = "register"
       /\ \E o \in users :
             o.email = r.new_user.email \/ o.username = r.new_user.username
    \/ /\ r.op = "update_profile"
       /\ \E o \in users :
             /\ o.id # r.current_user.id
             /\ \/ Truthy(r.user_update.email) /\ o.email = r.user_update.email
                \/ Truthy(r.user_update.username) /\ o.username = r.user_update.username

\* C16: however the check and write steps of registers and profile updates
\* interleave, no two users hold the same email or the same username, and a
\* request whose claimed value another request has persisted first fails
\* with Conflict (400), as it does when the requests run one after the other.
C16_RaceConflict ==
    /\ []C1_UniqueEmailAndUsername
    /\ [][\A r \in inflight :
             (r \notin inflight' /\ C16_ClaimTaken(r))
                => (last'.status = 400 /\ UNCHANGED db)]_vars

\* C17: the access token that login issued to a user authenticates, while it
\* is unexpired and whatever registers, profile updates and account
\* deletions have happened since, as that same user id or not at all.
C17_TokenKeepsIdentity ==
    \A t \in tokens :
       LET auth == get_current_active_user(t)
       IN auth.status = 200 =>
             \E u \in SeedUsers : u.username = t.sub /\ auth.user.id = u.id

C18_StoredValid ==
    \A e \in expenses : e.amount > 0 /\ e.category \in ExpenseCategory

\* The body of a create supplies an amount <= 0 or a category outside the enum.
C18_BadCreate(b) ==
    (b.amount # NullNum /\ b.amount <= 0) \/ b.category \notin ExpenseCategory \cup {None}

\* The patch of an update supplies an amount <= 0 or a category outside the enum.
C18_BadUpdate(p) ==
    \/ p.amount \notin {AbsentNum, NullNum} /\ p.amount <= 0
    \/ p.category \notin ExpenseCategory \cup {Absent, None}

\* C18: every stored expense has a strictly positive amount and a category of
\* the enum; a create or an update that supplies an amount <= 0 or a category
\* outside the enum is refused with a validation error (422) when its caller
\* is authenticated, and changes no stored row whoever sends it.
C18_ValidatedAmounts ==
    /\ []C18_StoredValid
    /\ [][/\ last'.op = "create_expense" =>
                \A t \in TokenInputs, b \in ValidationCreate :
                   (create_expense(t, b) /\ C18_BadCreate(b))
                      => /\ UNCHANGED db
                         /\ C5_Accepted(t) => last'.status = 422
          /\ last'.op = "update_expense" =>
                \A t \in TokenInputs :
                   (/\ update_expense(t, last'.req.id, last'.req.patch)
                    /\ C18_BadUpdate(last'.req.patch))
                      => /\ UNCHANGED db
                         /\ C5_Accepted(t) => last'.status = 422]_vars

\* An authenticated update with a non-positive amount was refused while
\* expenses are stored.
C18_Witness ==
    /\ last.op = "update_expense"
    /\ last.status = 422
    /\ last.req.patch.amount = 0
    /\ last.req.caller \in {e.user_id : e \in expenses}

====
